---- MODULE Spec2Model ----
(***************************************************************************)
(* Model of the file-clerk web components:                                 *)
(*   - FileSplitter (splitFiles / joinFiles), a pure chunking transform;   *)
(*   - FileClerk (saveFile / deleteFile / listFiles / openFile /           *)
(*     renderFileList), asynchronous handlers over a localforage store.    *)
(* Strings are sequences of UTF-16 code units drawn from a small alphabet. *)
(***************************************************************************)
EXTENDS Integers, Sequences, FiniteSets, TLC

(***************************************************************************)
(* Bounds of the model                                                     *)
(***************************************************************************)
\* payload lengths reach MaxChunks * CHUNK_SIZE + Delta code units
MaxChunks == 2
\* payload lengths lie within Delta of a multiple of CHUNK_SIZE
Delta == 1
\* code units are 0 .. AlphabetSize - 1
AlphabetSize == 3
\* number of caller-side reorderings of a chunk array before joinFiles
MaxSwaps == 2

(***************************************************************************)
(* State                                                                   *)
(***************************************************************************)
VARIABLES
    dataURL,     \* the argument of splitFiles
    chunks,      \* the chunk array held by the caller
    joined,      \* the value returned by the last joinFiles
    spc,         \* position of the splitter's caller
    swaps,       \* reorderings the caller has made to the chunk array
    verbose,     \* the file-clerk element has the verbose attribute
    store,       \* the localforage database: key -> stored value
    generated,   \* the UUIDs crypto.randomUUID() has returned so far
    lf,          \* localforage requests issued and not yet completed, in issue order
    calls,       \* every call of an async method, in call order, with its position
    napi,        \* number of calls made by the page
    events,      \* the events the element has dispatched, in order
    rows,        \* the children of .file-list, in document order
    variant,     \* which of the repository's FileViewer classes is registered
    children,    \* the child elements of the file-viewer, in document order
    fetches,     \* the fetch(fileDataUrl) promises of renderText not yet settled
    opened,      \* the arguments of the openFile calls made on the viewer, in order
    codec,       \* a media type and bytes taken through encode and decode
    container,   \* the archive file produced by export, as it is now
    exported,    \* the result of the last export
    imp,         \* the import in progress and its result
    given,       \* the chunk array as it was handed to the last joinFiles
    fs           \* the file-system element, its timers and the files it works on

svars == << dataURL, chunks, joined, spc, swaps, given >>
cvars == << verbose, store, generated, lf, calls, napi, events, rows >>
vvars == << variant, children, fetches, opened >>
avars == << codec, container, exported, imp >>
fvars == << fs >>
vars == << dataURL, chunks, joined, spc, swaps,
           verbose, store, generated, lf, calls, napi, events, rows,
           variant, children, fetches, opened,
           codec, container, exported, imp, given, fs >>

\* no string yet
NoString == << -1 >>
\* no file-viewer on the page, no codec run, no import started
NoVariant == "none"
NoCodec == [pc |-> "none"]
NoImport == [pc |-> "none"]
\* no file-system element on the page
NoFs == [pc |-> "none"]

(***************************************************************************)
(* FileSplitter                                                            *)
(***************************************************************************)
\* static CHUNK_SIZE = 14000
CHUNK_SIZE == 14000

Min(a, b) == IF a < b THEN a ELSE b

\* Math.ceil(a / b) for a >= 0, b > 0
Ceil(a, b) == (a + b - 1) \div b

\* String.prototype.slice(start, end) for 0 <= start <= end: both ends are
\* clamped to the length of the string (positions are 0-based, end exclusive)
Slice(s, start, end) == SubSeq(s, Min(start, Len(s)) + 1, Min(end, Len(s)))

\* the chunk built by iteration i of the loop of splitFiles
ChunkAtIndexFromOne(url, i) ==
    [index |-> i + 1, data |-> Slice(url, i * CHUNK_SIZE, (i + 1) * CHUNK_SIZE)]
ChunkAtShortEnd(url, i) ==
    [index |-> i, data |-> Slice(url, i * CHUNK_SIZE, (i + 1) * CHUNK_SIZE - 1)]
ChunkAt(url, i) ==
    [index |-> i, data |-> Slice(url, i * CHUNK_SIZE, (i + 1) * CHUNK_SIZE)]

\* splitFiles(dataURL): totalChunks iterations, each pushing one chunk
splitFilesFloor(url) ==
    [k \in 1 .. (Len(url) \div CHUNK_SIZE) |-> ChunkAt(url, k - 1)]
splitFiles(url) ==
    LET totalChunks == Ceil(Len(url), CHUNK_SIZE)
    IN  [k \in 1 .. totalChunks |-> ChunkAt(url, k - 1)]

\* Array.prototype.sort((a, b) => a.index - b.index): a stable sort, ascending
\* by index; modelled as a stable insertion sort
RECURSIVE InsertByIndex(_, _)
InsertByIndex(sorted, c) ==
    IF sorted = << >> THEN << c >>
    ELSE IF sorted[Len(sorted)].index - c.index > 0
         THEN Append(InsertByIndex(SubSeq(sorted, 1, Len(sorted) - 1), c),
                     sorted[Len(sorted)])
         ELSE Append(sorted, c)

RECURSIVE SortByIndex(_)
SortByIndexUnsorted(cs) == cs
SortByIndex(cs) ==
    IF cs = << >> THEN << >>
    ELSE InsertByIndex(SortByIndex(SubSeq(cs, 1, Len(cs) - 1)), cs[Len(cs)])

\* the concatenation loop of joinFiles: data += chunks[i].data
RECURSIVE ConcatData(_)
ConcatData(cs) ==
    IF cs = << >> THEN << >>
    ELSE ConcatData(SubSeq(cs, 1, Len(cs) - 1)) \o cs[Len(cs)].data

\* joinFiles(chunks) returns the concatenation of the sorted array
joinFiles(cs) == ConcatData(SortByIndex(cs))

\* the payloads the splitter is run on: every length within Delta of a
\* multiple of CHUNK_SIZE, three character patterns per length
PayloadLens ==
    { k * CHUNK_SIZE + d : k \in 0 .. MaxChunks, d \in (0 - Delta) .. Delta }
        \cap Nat
Pattern(len, seed) ==
    [i \in 1 .. len |-> (i + (i \div CHUNK_SIZE) + seed + (i * i) \div 7) % AlphabetSize]
Payloads == { Pattern(len, seed) : len \in PayloadLens, seed \in 0 .. 2 }

\* chunks = splitter.splitFiles(dataURL)
SplitFiles ==
    /\ spc = "start"
    /\ chunks' = splitFiles(dataURL)
    /\ spc' = "split"
    /\ UNCHANGED << dataURL, joined, swaps, given >>
    /\ UNCHANGED << cvars, vvars, avars, fvars >>

\* the caller reorders the array it holds (chunks may arrive in any order)
SwapChunks ==
    /\ spc = "split"
    /\ swaps < MaxSwaps
    /\ \E i, j \in 1 .. Len(chunks) :
          /\ i < j
          /\ chunks' = [chunks EXCEPT ![i] = chunks[j], ![j] = chunks[i]]
    /\ swaps' = swaps + 1
    /\ UNCHANGED << dataURL, joined, spc, given >>
    /\ UNCHANGED << cvars, vvars, avars, fvars >>

\* joined = splitter.joinFiles(chunks): sorts the caller's array in place
JoinFiles ==
    /\ spc \in {"split", "joined"}
    /\ given' = chunks
    /\ chunks' = SortByIndex(chunks)
    /\ joined' = joinFiles(chunks)
    /\ spc' = "joined"
    /\ UNCHANGED << dataURL, swaps >>
    /\ UNCHANGED << cvars, vvars, avars, fvars >>

SplitterNext == SplitFiles \/ SwapChunks \/ JoinFiles

(***************************************************************************)
(* FileClerk over localforage                                              *)
(*                                                                         *)
(* A JavaScript value that may be null or undefined is a sequence of       *)
(* length at most one: << >> is null/undefined, << v >> is the value v.    *)
(***************************************************************************)
\* number of method calls the page makes on an element without the verbose
\* attribute, and on one with it (where every mutation also starts a render)
MaxCalls == 3
MaxVerboseCalls == 2
\* size of the universe of UUIDs
MaxIds == 2

Ids == 1 .. MaxIds
\* the files the page saves: filename, contents (a Data URL), metadata
Uploads ==
    { << "hello.txt", "data:text/plain;base64,SGk=", "my notes" >>,
      << "cat.png", "data:image/png;base64,iVBO", "" >> }

\* crypto.randomUUID(): the values a call can return, given those returned
\* before; a version-4 UUID is taken never to repeat
randomUUIDRepeating(gen) == Ids
randomUUIDReused(gen) == Ids \cup gen
randomUUID(gen) == Ids \ gen

\* const fileData = { filename, contents, metadata }
FileData(filename, contents, metadata) ==
    [filename |-> filename, contents |-> contents, metadata |-> metadata]

\* the object listFiles builds for one key
ListEntryNameAsContents(key, fileData) ==
    [id |-> key, filename |-> fileData.filename,
     contents |-> fileData.filename, metadata |-> fileData.metadata]
ListEntry(key, fileData) ==
    [id |-> key, filename |-> fileData.filename,
     contents |-> fileData.contents, metadata |-> fileData.metadata]

\* the value an async function without a return statement resolves with
Undefined == << >>

\* ascending order of a set of keys, the order localforage.keys() reports
RECURSIVE SortedKeys(_)
SortedKeysButFirst(S) ==
    IF S = {} THEN << >>
    ELSE LET m == CHOOSE x \in S : \A y \in S : x <= y
         IN  SortedKeys(S \ {m})
SortedKeys(S) ==
    IF S = {} THEN << >>
    ELSE LET m == CHOOSE x \in S : \A y \in S : x <= y
         IN  << m >> \o SortedKeys(S \ {m})

\* localforage.getItem(key): the stored value, null for an absent key
GetItem(st, key) == IF key \in DOMAIN st THEN << st[key] >> ELSE << >>

\* localforage.setItem(key, value)
SetItemOnly(st, key, value) == [k \in {key} |-> value]
SetItem(st, key, value) ==
    [k \in DOMAIN st \cup {key} |-> IF k = key THEN value ELSE st[k]]

\* localforage.removeItem(key): no error for an absent key
RemoveItem(st, key) == [k \in DOMAIN st \ {key} |-> st[k]]

Request(op, key, value, c) == [op |-> op, key |-> key, value |-> value, call |-> c]

IsWrite(r) == r.op \in {"setItem", "removeItem"}

\* a request can complete once no earlier request conflicts with it: reads
\* may overtake reads, a write keeps its place in the issue order
CanComplete(i) == \A j \in 1 .. (i - 1) : ~ (IsWrite(lf[j]) \/ IsWrite(lf[i]))

RemoveAt(s, i) == SubSeq(s, 1, i - 1) \o SubSeq(s, i + 1, Len(s))

\* the calls that have settled
Settled == { c \in 1 .. Len(calls) : calls[c].pc \in {"resolved", "rejected"} }

\* a call that has run up to its first await
\*   id, value: the key and the record the call works on
\*   keys, got: the keys() result and the entries built so far (listFiles)
\*   ret: the value the call resolved with
\*   present: whether the key was in the store when the call read or removed it
\*   before: the calls that had settled when this one was made
NewCall(fn, pc, id, value) ==
    [fn |-> fn, pc |-> pc, id |-> id, value |-> value, keys |-> << >>,
     got |-> << >>, ret |-> << >>, present |-> FALSE, before |-> Settled]

NoKey == 0

\* the page may make another call
MayCall == napi < (IF verbose THEN MaxVerboseCalls ELSE MaxCalls)

\* renderFileList(), called without await at the end of saveFile and
\* deleteFile: in verbose mode it calls listFiles(), which issues keys()
StartRender(cs, q) ==
    IF verbose
    THEN << Append(cs, [NewCall("renderFileList", "keys", NoKey, << >>)
                            EXCEPT !.before = { c \in 1 .. Len(cs) :
                                       cs[c].pc \in {"resolved", "rejected"} }]),
            Append(q, Request("keys", NoKey, << >>, Len(cs) + 1)) >>
    ELSE << cs, q >>

\* saveFile(filename, contents, metadata) up to its await: the id is drawn,
\* the record built and setItem issued
CallSaveFile(filename, contents, metadata) ==
    /\ MayCall
    /\ \E id \in randomUUID(generated) :
          LET fileData == FileData(filename, contents, metadata) IN
          /\ generated' = generated \cup {id}
          /\ calls' = Append(calls, NewCall("saveFile", "setItem", id, << fileData >>))
          /\ lf' = Append(lf, Request("setItem", id, << fileData >>, Len(calls) + 1))
    /\ napi' = napi + 1
    /\ UNCHANGED << verbose, store, events, rows >>

\* deleteFile(id) up to its await
CallDeleteFile(id) ==
    /\ MayCall
    /\ calls' = Append(calls, NewCall("deleteFile", "removeItem", id, << >>))
    /\ lf' = Append(lf, Request("removeItem", id, << >>, Len(calls) + 1))
    /\ napi' = napi + 1
    /\ UNCHANGED << verbose, store, generated, events, rows >>

\* listFiles() up to its first await
CallListFiles ==
    /\ MayCall
    /\ calls' = Append(calls, NewCall("listFiles", "keys", NoKey, << >>))
    /\ lf' = Append(lf, Request("keys", NoKey, << >>, Len(calls) + 1))
    /\ napi' = napi + 1
    /\ UNCHANGED << verbose, store, generated, events, rows >>

\* openFile(id) up to its await
CallOpenFile(id) ==
    /\ MayCall
    /\ calls' = Append(calls, NewCall("openFile", "getItem", id, << >>))
    /\ lf' = Append(lf, Request("getItem", id, << >>, Len(calls) + 1))
    /\ napi' = napi + 1
    /\ UNCHANGED << verbose, store, generated, events, rows >>

\* what saveFile resolves with
saveFileReturnId(id) == << id >>
saveFileReturn(id) == Undefined

\* setItem completes and saveFile resumes after its await
SetItemDone(i) ==
    LET r == lf[i]
        cs == [calls EXCEPT ![r.call].pc = "resolved",
                            ![r.call].ret = saveFileReturn(r.key)]
        sr == StartRender(cs, RemoveAt(lf, i))
    IN  /\ r.op = "setItem"
        /\ store' = SetItem(store, r.key, r.value[1])
        /\ calls' = sr[1]
        /\ lf' = sr[2]
        /\ UNCHANGED << verbose, generated, napi, events, rows >>

\* the database after the request deleteFile(id) issues
deleteFileEffectClear(st, id) == << >>
deleteFileEffectNone(st, id) == st
deleteFileEffect(st, id) == RemoveItem(st, id)

\* removeItem completes and deleteFile resumes after its await
RemoveItemDone(i) ==
    LET r == lf[i]
        cs == [calls EXCEPT ![r.call].pc = "resolved",
                            ![r.call].ret = Undefined,
                            ![r.call].present = r.key \in DOMAIN store]
        sr == StartRender(cs, RemoveAt(lf, i))
    IN  /\ r.op = "removeItem"
        /\ store' = deleteFileEffect(store, r.key)
        /\ calls' = sr[1]
        /\ lf' = sr[2]
        /\ UNCHANGED << verbose, generated, napi, events, rows >>

\* the array listFiles returns, in the order of keys
Files(keys, got) == [k \in 1 .. Len(keys) |-> got[keys[k]]]

\* renderFileList after its await: .file-list is emptied and one row is
\* appended per file
Render(c, files) == IF calls[c].fn = "renderFileList" THEN files ELSE rows

\* keys() completes: listFiles maps every key to a getItem request; with no
\* key Promise.all resolves at once
KeysDone(i) ==
    LET r == lf[i]
        c == r.call
        keys == SortedKeys(DOMAIN store)
    IN  /\ r.op = "keys"
        /\ IF keys = << >>
           THEN /\ calls' = [calls EXCEPT ![c].pc = "resolved", ![c].ret = << << >> >>]
                /\ lf' = RemoveAt(lf, i)
                /\ rows' = Render(c, << >>)
           ELSE /\ calls' = [calls EXCEPT ![c].pc = "getItems", ![c].keys = keys]
                /\ lf' = RemoveAt(lf, i)
                          \o [k \in 1 .. Len(keys) |-> Request("getItem", keys[k], << >>, c)]
                /\ rows' = rows
        /\ UNCHANGED << verbose, store, generated, napi, events >>

\* a getItem of listFiles completes: the entry is built from fileData; reading
\* a field of null throws, which rejects Promise.all and with it listFiles
ListGetItemDone(i) ==
    LET r == lf[i]
        c == r.call
        fileData == GetItem(store, r.key)
    IN  /\ r.op = "getItem"
        /\ calls[c].fn \in {"listFiles", "renderFileList"}
        /\ lf' = RemoveAt(lf, i)
        /\ IF calls[c].pc # "getItems"
           THEN UNCHANGED << calls, rows >>
           ELSE IF fileData = << >>
           THEN /\ calls' = [calls EXCEPT ![c].pc = "rejected"]
                /\ rows' = rows
           ELSE LET got == (r.key :> ListEntry(r.key, fileData[1])) @@ calls[c].got
                    files == Files(calls[c].keys, got)
                IN  IF DOMAIN got = { calls[c].keys[k] : k \in 1 .. Len(calls[c].keys) }
                    THEN /\ calls' = [calls EXCEPT ![c].pc = "resolved",
                                                   ![c].got = got,
                                                   ![c].ret = << files >>]
                         /\ rows' = Render(c, files)
                    ELSE /\ calls' = [calls EXCEPT ![c].got = got]
                         /\ rows' = rows
        /\ UNCHANGED << verbose, store, generated, napi, events >>

\* the event openFile dispatches for the value getItem gave
openFileEvent(c, fileData) == << [type |-> "file-opened", detail |-> fileData, call |-> c] >>

\* the getItem of openFile completes and the event is dispatched
OpenGetItemDone(i) ==
    LET r == lf[i]
        c == r.call
        fileData == GetItem(store, r.key)
    IN  /\ r.op = "getItem"
        /\ calls[c].fn = "openFile"
        /\ lf' = RemoveAt(lf, i)
        /\ events' = events \o openFileEvent(c, fileData)
        /\ calls' = [calls EXCEPT ![c].pc = "resolved", ![c].ret = Undefined,
                                  ![c].present = r.key \in DOMAIN store]
        /\ UNCHANGED << verbose, store, generated, napi, rows >>

SplitterIdle == UNCHANGED svars
ViewerIdle == UNCHANGED vvars
ArchiveIdle == UNCHANGED avars
FileSystemIdle == UNCHANGED fvars

SaveFile == (\E u \in Uploads : CallSaveFile(u[1], u[2], u[3])) /\ SplitterIdle /\ ViewerIdle /\ ArchiveIdle /\ FileSystemIdle
DeleteFile == (\E id \in Ids : CallDeleteFile(id)) /\ SplitterIdle /\ ViewerIdle /\ ArchiveIdle /\ FileSystemIdle
ListFiles == CallListFiles /\ SplitterIdle /\ ViewerIdle /\ ArchiveIdle /\ FileSystemIdle
OpenFile == (\E id \in Ids : CallOpenFile(id)) /\ SplitterIdle /\ ViewerIdle /\ ArchiveIdle /\ FileSystemIdle
SetItemCompletes == (\E i \in 1 .. Len(lf) : CanComplete(i) /\ SetItemDone(i)) /\ SplitterIdle /\ ViewerIdle /\ ArchiveIdle /\ FileSystemIdle
RemoveItemCompletes == (\E i \in 1 .. Len(lf) : CanComplete(i) /\ RemoveItemDone(i)) /\ SplitterIdle /\ ViewerIdle /\ ArchiveIdle /\ FileSystemIdle
KeysCompletes == (\E i \in 1 .. Len(lf) : CanComplete(i) /\ KeysDone(i)) /\ SplitterIdle /\ ViewerIdle /\ ArchiveIdle /\ FileSystemIdle
ListGetItemCompletes == (\E i \in 1 .. Len(lf) : CanComplete(i) /\ ListGetItemDone(i)) /\ SplitterIdle /\ ViewerIdle /\ ArchiveIdle /\ FileSystemIdle
OpenGetItemCompletes == (\E i \in 1 .. Len(lf) : CanComplete(i) /\ OpenGetItemDone(i)) /\ SplitterIdle /\ ViewerIdle /\ ArchiveIdle /\ FileSystemIdle

ClerkNext ==
    \/ SaveFile
    \/ DeleteFile
    \/ ListFiles
    \/ OpenFile
    \/ SetItemCompletes
    \/ RemoveItemCompletes
    \/ KeysCompletes
    \/ ListGetItemCompletes
    \/ OpenGetItemCompletes

\* a file-clerk element after initialize(), with a splitter that is not used
Init ==
    /\ verbose \in BOOLEAN
    /\ store = << >>
    /\ generated = {}
    /\ napi = 0
    /\ events = << >>
    /\ rows = << >>
    \* initialize(): in verbose mode renderFileList() is started
    /\ calls = IF verbose
               THEN << [fn |-> "renderFileList", pc |-> "keys", id |-> NoKey,
                        value |-> << >>, keys |-> << >>, got |-> << >>,
                        ret |-> << >>, present |-> FALSE, before |-> {}] >>
               ELSE << >>
    /\ lf = IF verbose THEN << Request("keys", NoKey, << >>, 1) >> ELSE << >>
    /\ dataURL = << >>
    /\ chunks = << >>
    /\ joined = NoString
    /\ spc = "start"
    /\ swaps = 0
    /\ given = << >>
    /\ fs = NoFs
    /\ variant = NoVariant
    /\ children = << >>
    /\ fetches = {}
    /\ opened = << >>
    /\ codec = NoCodec
    /\ container = << >>
    /\ exported = << >>
    /\ imp = NoImport

Next == ClerkNext

Spec == Init /\ [][Next]_vars

\* a file-splitter element given a payload, with a file-clerk that is not used
InitSplitter ==
    /\ dataURL \in Payloads
    /\ chunks = << >>
    /\ joined = NoString
    /\ spc = "start"
    /\ swaps = 0
    /\ given = << >>
    /\ fs = NoFs
    /\ verbose = FALSE
    /\ store = << >>
    /\ generated = {}
    /\ lf = << >>
    /\ calls = << >>
    /\ napi = 0
    /\ events = << >>
    /\ rows = << >>
    /\ variant = NoVariant
    /\ children = << >>
    /\ fetches = {}
    /\ opened = << >>
    /\ codec = NoCodec
    /\ container = << >>
    /\ exported = << >>
    /\ imp = NoImport

NextSplitter == SplitterNext

SpecSplitter == InitSplitter /\ [][NextSplitter]_vars

(***************************************************************************)
(* Properties of FileSplitter, checked under SpecSplitter                  *)
(***************************************************************************)
\* C1: joining the chunks of a payload as splitFiles returned them gives back
\* exactly the payload, for every payload (empty, or a whole number of chunks)
C1_RoundTrip == (spc = "joined" /\ swaps = 0) => joined = dataURL

C1_Witness ==
    /\ spc = "joined" /\ swaps = 0
    /\ Len(dataURL) = 2 * CHUNK_SIZE
    /\ joined = dataURL

\* C2: splitFiles returns ceil(len / CHUNK_SIZE) chunks, all of length
\* CHUNK_SIZE except the last, which has 1 .. CHUNK_SIZE code units; the empty
\* payload gives no chunk
C2_ChunkCountAndSize ==
    (spc = "split" /\ swaps = 0) =>
        LET n == Len(chunks)
            len == Len(dataURL)
        IN  /\ len = 0 => n = 0
            /\ len > 0 => (n - 1) * CHUNK_SIZE < len /\ len <= n * CHUNK_SIZE
            /\ \A k \in 1 .. (n - 1) : Len(chunks[k].data) = CHUNK_SIZE
            /\ n > 0 => Len(chunks[n].data) \in 1 .. CHUNK_SIZE

C2_Witness ==
    /\ spc = "split" /\ swaps = 0
    /\ Len(chunks) >= 2
    /\ Len(chunks[Len(chunks)].data) < CHUNK_SIZE

\* C3: the k-th chunk splitFiles emits has index k - 1 (counting k from 1):
\* the indices are 0 .. count-1, ascending, none repeated or skipped
C3_IndicesAscending ==
    (spc = "split" /\ swaps = 0) =>
        \A k \in 1 .. Len(chunks) : chunks[k].index = k - 1

C3_Witness == spc = "split" /\ swaps = 0 /\ Len(chunks) >= 3

\* C4: joinFiles gives back the payload whatever order the caller has put the
\* chunks in
C4_OrderIndependent == (spc = "joined" /\ swaps > 0) => joined = dataURL

C4_Witness ==
    /\ spc = "joined" /\ swaps = 1
    /\ Len(chunks) >= 2
    /\ joined = dataURL

(***************************************************************************)
(* Properties of FileClerk, checked under Spec                             *)
(***************************************************************************)
CallsOf(fn) == { c \in 1 .. Len(calls) : calls[c].fn = fn }
Resolved(c) == calls[c].pc = "resolved"
\* deleteFile(id) has been called, settled or not
DeleteCalled(id) == \E d \in CallsOf("deleteFile") : calls[d].id = id
\* the events dispatched by call c
EventsOf(c) == { k \in 1 .. Len(events) : events[k].call = c }

\* C5: every saveFile stores under an id no earlier saveFile used, whether or
\* not that record was deleted since; without deleteFile calls the store has
\* one record per completed saveFile
C5_UniqueIds ==
    /\ \A c, d \in CallsOf("saveFile") : c # d => calls[c].id # calls[d].id
    /\ CallsOf("deleteFile") = {} =>
          Cardinality(DOMAIN store) =
              Cardinality({ c \in CallsOf("saveFile") : Resolved(c) })

C5_Witness ==
    \E c, d \in CallsOf("saveFile"), e \in CallsOf("deleteFile") :
        /\ Resolved(c) /\ Resolved(d) /\ Resolved(e)
        /\ calls[e].id = calls[c].id /\ calls[e].present
        /\ e \in calls[d].before
        /\ calls[d].id \in DOMAIN store

\* C6: a listFiles or openFile called after saveFile completed, with no
\* deleteFile of that id, reports the record as saved: listFiles has exactly one
\* entry for the id, with the filename, contents and metadata passed to saveFile;
\* openFile(id) dispatches one file-opened event whose detail is those values
C6_ReadAfterCreate ==
    \A c \in 1 .. Len(calls) : \A s \in calls[c].before \cap CallsOf("saveFile") :
        (Resolved(c) /\ ~ DeleteCalled(calls[s].id)) =>
            LET saved == calls[s].value[1] IN
            /\ calls[c].fn = "listFiles" =>
                  LET files == calls[c].ret[1]
                      at == { k \in 1 .. Len(files) : files[k].id = calls[s].id }
                  IN  /\ Cardinality(at) = 1
                      /\ \A k \in at :
                            /\ files[k].filename = saved.filename
                            /\ files[k].contents = saved.contents
                            /\ files[k].metadata = saved.metadata
            /\ (calls[c].fn = "openFile" /\ calls[c].id = calls[s].id) =>
                  /\ Cardinality(EventsOf(c)) = 1
                  /\ \A k \in EventsOf(c) :
                        /\ events[k].type = "file-opened"
                        /\ events[k].detail = << saved >>

C6_Witness ==
    \E s \in CallsOf("saveFile"), c \in CallsOf("listFiles"), o \in CallsOf("openFile") :
        /\ s \in calls[c].before /\ s \in calls[o].before
        /\ Resolved(c) /\ Resolved(o)
        /\ calls[o].id = calls[s].id
        /\ ~ DeleteCalled(calls[s].id)
        /\ Len(calls[c].ret[1]) = 1

\* C7 as stated: saveFile returns the id it stored the record under
C7_ReturnsId ==
    \A c \in CallsOf("saveFile") : Resolved(c) => calls[c].ret = << calls[c].id >>

\* C7 amended: saveFile stores the record under the id it generated and
\* resolves with undefined
C7_ReturnsUndefined ==
    \A c \in CallsOf("saveFile") :
        Resolved(c) =>
            /\ calls[c].ret = Undefined
            /\ ~ DeleteCalled(calls[c].id) =>
                  /\ calls[c].id \in DOMAIN store
                  /\ store[calls[c].id] = calls[c].value[1]

C7_Witness ==
    \E c \in CallsOf("saveFile") : Resolved(c) /\ calls[c].id \in DOMAIN store

\* C8 as stated: openFile of an id that is not in the store fails and
\* dispatches no file-opened event
C8_AbsentReadFails ==
    \A c \in CallsOf("openFile") :
        (calls[c].pc \in {"resolved", "rejected"} /\ ~ calls[c].present) =>
            /\ calls[c].pc = "rejected"
            /\ EventsOf(c) = {}

C10_DeletionPermanent ==
    \A c \in 1 .. Len(calls) : \A d \in calls[c].before \cap CallsOf("deleteFile") :
        (Resolved(c) /\ calls[d].present) =>
            /\ calls[c].fn = "listFiles" =>
                  \A k \in 1 .. Len(calls[c].ret[1]) :
                      calls[c].ret[1][k].id # calls[d].id
            /\ (calls[c].fn = "openFile" /\ calls[c].id = calls[d].id) =>
                  \A k \in EventsOf(c) : events[k].detail = << >>

C10_Witness ==
    \E d \in CallsOf("deleteFile"), c \in CallsOf("listFiles") \cup CallsOf("openFile") :
        /\ d \in calls[c].before /\ calls[d].present
        /\ Resolved(c)
        /\ calls[c].fn = "openFile" => calls[c].id = calls[d].id

\* the calls that change the store
Mutations == CallsOf("saveFile") \cup CallsOf("deleteFile")

\* C11: a listFiles or openFile that was called after every mutation so far
\* had settled reports the database as it is: one entry per stored key, with
\* id the key and the stored filename, contents and metadata; openFile(id)
\* dispatches the stored value of id
C11_NoAuthoritativeCache ==
    \A c \in 1 .. Len(calls) :
        (Resolved(c) /\ Mutations \subseteq calls[c].before) =>
            /\ calls[c].fn = "listFiles" =>
                  LET files == calls[c].ret[1] IN
                  /\ Len(files) = Cardinality(DOMAIN store)
                  /\ { files[k].id : k \in 1 .. Len(files) } = DOMAIN store
                  /\ \A k \in 1 .. Len(files) :
                        /\ files[k].filename = store[files[k].id].filename
                        /\ files[k].contents = store[files[k].id].contents
                        /\ files[k].metadata = store[files[k].id].metadata
            /\ calls[c].fn = "openFile" =>
                  \A k \in EventsOf(c) :
                      events[k].detail = (IF calls[c].id \in DOMAIN store
                                          THEN << store[calls[c].id] >> ELSE << >>)

C11_Witness ==
    \E c \in CallsOf("listFiles"), s \in CallsOf("saveFile"), d \in CallsOf("deleteFile") :
        /\ Resolved(c) /\ Mutations \subseteq calls[c].before
        /\ calls[d].id # calls[s].id
        /\ Len(calls[c].ret[1]) = 1

\* ---------------------------------------------------------------------
\* FileViewer. A string is the sequence of its pieces: the characters
\* that openFile and renderText split on are pieces of their own, and so
\* is every character of a base64 body.

MaxOpens == 2

\* the characters of base64, in the order of their values 0 .. 63
B64Alphabet ==
    << "A", "B", "C", "D", "E", "F", "G", "H", "I", "J", "K", "L", "M",
       "N", "O", "P", "Q", "R", "S", "T", "U", "V", "W", "X", "Y", "Z",
       "a", "b", "c", "d", "e", "f", "g", "h", "i", "j", "k", "l", "m",
       "n", "o", "p", "q", "r", "s", "t", "u", "v", "w", "x", "y", "z",
       "0", "1", "2", "3", "4", "5", "6", "7", "8", "9", "+", "/" >>

B64Chars == { B64Alphabet[i] : i \in 1 .. 64 }
B64Value(ch) == (CHOOSE i \in 1 .. 64 : B64Alphabet[i] = ch) - 1

\* the body without its padding: one or two trailing "=" of a body whose
\* length is a multiple of four
StripPadding(body) ==
    LET n == Len(body) IN
    IF n > 0 /\ n % 4 = 0 /\ body[n] = "="
    THEN IF body[n - 1] = "=" THEN SubSeq(body, 1, n - 2) ELSE SubSeq(body, 1, n - 1)
    ELSE body

\* the bytes of an unpadded body: four characters carry three bytes, a
\* last group of three carries two and a last group of two carries one
RECURSIVE B64Bytes(_)
B64Bytes(s) ==
    IF Len(s) < 2 THEN << >>
    ELSE LET n == Min(4, Len(s))
             v == B64Value(s[1]) * 262144 + B64Value(s[2]) * 4096
                  + (IF n >= 3 THEN B64Value(s[3]) * 64 ELSE 0)
                  + (IF n = 4 THEN B64Value(s[4]) ELSE 0)
             bytes == << v \div 65536, (v \div 256) % 256, v % 256 >>
         IN SubSeq(bytes, 1, n - 1) \o B64Bytes(SubSeq(s, n + 1, Len(s)))

\* atob with the padding never stripped, so that a padded body does not decode
AtobKeepPadding(body) ==
    IF \E k \in 1 .. Len(body) : body[k] \notin B64Chars
    THEN << >> ELSE << B64Bytes(body) >>

\* atob(body): << the bytes >>, or << >> when it throws: a character
\* outside the alphabet, or one character left over after the groups of four
Atob(body) ==
    LET s == StripPadding(body) IN
    IF (\E k \in 1 .. Len(s) : s[k] \notin B64Chars) \/ Len(s) % 4 = 1
    THEN << >> ELSE << B64Bytes(s) >>

\* string.split(sep): the pieces between the occurrences of sep
RECURSIVE Split(_, _)
Split(s, sep) ==
    IF \A k \in 1 .. Len(s) : s[k] # sep THEN << s >>
    ELSE LET i == CHOOSE k \in 1 .. Len(s) : s[k] = sep /\ \A j \in 1 .. k - 1 : s[j] # sep
         IN << SubSeq(s, 1, i - 1) >> \o Split(SubSeq(s, i + 1, Len(s)), sep)

\* array[i] of JavaScript, i counted from 0: << the element >> or << >> for undefined
At(array, i) == IF i + 1 \in 1 .. Len(array) THEN << array[i + 1] >> ELSE << >>

\* "data:" + mediaType + ";base64," + body
DataUrl(mediaType, body) == << "data", ":", mediaType, ";", "base64", "," >> \o body

\* the Data URLs handed to the viewer: one of each type the viewers name,
\* a type none of them names, a text whose body does not decode, a Data
\* URL without ";base64" and a string that is no Data URL
ViewerUrls ==
    { DataUrl("image/jpeg", << "/", "9", "j", "/" >>),
      DataUrl("image/png", << "i", "V", "B", "O" >>),
      DataUrl("image/webp", << "U", "k", "l", "G" >>),
      DataUrl("video/mp4", << "A", "A", "A", "A" >>),
      DataUrl("audio/mpeg", << "S", "U", "Q", "z" >>),
      DataUrl("application/pdf", << "J", "V", "B", "E" >>),
      DataUrl("text/plain", << "S", "G", "k", "=" >>),
      DataUrl("text/plain", << "Y", "Q", "=", "=" >>),
      DataUrl("text/plain", << "%" >>),
      DataUrl("application/zip", << "U", "E", "s", "D" >>),
      << "data", ":", "text/plain", ",", "h", "i" >>,
      << "hello" >> }

\* the three FileViewer classes of the repository
Vanilla == "file-viewer.js"
ClearFirst == "part_002"
CreateFirst == "part_003"
Variants == { Vanilla, ClearFirst, CreateFirst }

\* a child element of the viewer
Element(tag, src) == [tag |-> tag, src |-> src, content |-> << >>, failed |-> FALSE]
Pre(text) == [tag |-> "pre", src |-> << >>, content |-> text, failed |-> FALSE]
PreError == [tag |-> "pre", src |-> << >>, content |-> << >>, failed |-> TRUE]

\* const fileType = fileDataUrl.split(":")[1].split(";")[0]:
\* << the string >>, or << >> when [1] is undefined and .split throws
FileType(url) ==
    LET second == At(Split(url, ":"), 1) IN
    IF second = << >> THEN << >> ELSE At(Split(second[1], ";"), 0)

\* a switch whose default case renders an image
TagOfDefaultImg(v, fileType) ==
    CASE fileType = << "video/mp4" >> -> "video"
      [] fileType = << "audio/mpeg" >> -> "audio"
      [] fileType = << "application/pdf" >> -> "embed"
      [] fileType = << "text/plain" >> -> "pre"
      [] OTHER -> "img"

\* the tag openFile's switch renders a file type with, "" in the default case
TagOf(v, fileType) ==
    CASE fileType \in { << "image/jpeg" >>, << "image/png" >> } -> "img"
      [] fileType = << "image/webp" >> -> IF v = ClearFirst THEN "img" ELSE ""
      [] fileType = << "video/mp4" >> -> "video"
      [] fileType = << "audio/mpeg" >> -> "audio"
      [] fileType = << "application/pdf" >> -> "embed"
      [] fileType = << "text/plain" >> -> "pre"
      [] OTHER -> ""

\* clear(): removes the children one by one until none is left
Clear(before) == << >>

\* renderImage, renderVideo, renderAudio and renderPdf: the children
\* after the call. file-viewer.js creates, clears, appends; part_002
\* clears, then this.create appends; part_003 lets this.create append
\* and then clears
RenderElement(v, before, el) ==
    IF v = CreateFirst THEN Clear(Append(before, el)) ELSE Append(Clear(before), el)

\* fetch(fileDataUrl) and response.text() on a base64 Data URL: << the
\* text >>, or << >> when the body does not decode and the fetch rejects
FetchText(url) ==
    LET body == At(Split(url, ","), 1) IN
    IF body = << >> THEN << >> ELSE Atob(body[1])

\* renderText of part_002, synchronous
RenderTextSync(url) ==
    LET body == At(Split(url, ","), 1)
        text == IF body = << >> THEN << >> ELSE Atob(body[1])
    IN IF text = << >> THEN << PreError >> ELSE << Pre(text[1]) >>

\* openFile(fileDataUrl)
ViewerOpen(url) ==
    /\ Len(opened) < MaxOpens
    /\ opened' = Append(opened, url)
    /\ LET fileType == FileType(url)
           tag == IF fileType = << >> THEN "" ELSE TagOf(variant, fileType[1])
       IN CASE tag = "" ->
                 UNCHANGED << children, fetches >>
            [] tag = "pre" /\ variant = ClearFirst ->
                 /\ children' = RenderTextSync(url)
                 /\ UNCHANGED fetches
            [] tag = "pre" /\ variant # ClearFirst ->
                 /\ fetches' = fetches \cup { [n |-> Len(opened) + 1, url |-> url] }
                 /\ UNCHANGED children
            [] OTHER ->
                 /\ children' = RenderElement(variant, children, Element(tag, url))
                 /\ UNCHANGED fetches
    /\ UNCHANGED variant

\* a fetch of renderText settles: .then replaces the children, .catch logs
FetchSettles(f) ==
    /\ fetches' = fetches \ { f }
    /\ LET text == FetchText(f.url) IN
       IF text = << >> THEN UNCHANGED children
       ELSE children' = << Pre(text[1]) >>
    /\ UNCHANGED << variant, opened >>

ViewerOpenFile == (\E url \in ViewerUrls : ViewerOpen(url)) /\ UNCHANGED << svars, cvars, avars, fvars >>
FetchCompletes == (\E f \in fetches : FetchSettles(f)) /\ UNCHANGED << svars, cvars, avars, fvars >>

NextViewer == ViewerOpenFile \/ FetchCompletes

\* a page with one file-viewer of one of the three classes, nothing opened
InitViewer ==
    /\ variant \in Variants
    /\ children = << >>
    /\ fetches = {}
    /\ opened = << >>
    /\ dataURL = << >>
    /\ chunks = << >>
    /\ joined = NoString
    /\ spc = "start"
    /\ swaps = 0
    /\ given = << >>
    /\ fs = NoFs
    /\ verbose = FALSE
    /\ store = << >>
    /\ generated = {}
    /\ lf = << >>
    /\ calls = << >>
    /\ napi = 0
    /\ events = << >>
    /\ rows = << >>
    /\ codec = NoCodec
    /\ container = << >>
    /\ exported = << >>
    /\ imp = NoImport

SpecViewer == InitViewer /\ [][NextViewer]_vars

MaxBytes == 3

\* base64 of a byte sequence: three bytes give four characters, a last
\* group of two gives three and "=", a last single byte gives two and "=="
RECURSIVE B64Encode(_)
B64Encode(b) ==
    IF b = << >> THEN << >>
    ELSE LET n == Min(3, Len(b))
             v == b[1] * 65536 + (IF n >= 2 THEN b[2] * 256 ELSE 0)
                  + (IF n = 3 THEN b[3] ELSE 0)
             c1 == B64Alphabet[(v \div 262144) + 1]
             c2 == B64Alphabet[((v \div 4096) % 64) + 1]
             c3 == IF n >= 2 THEN B64Alphabet[((v \div 64) % 64) + 1] ELSE "="
             c4 == IF n = 3 THEN B64Alphabet[(v % 64) + 1] ELSE "="
         IN << c1, c2, c3, c4 >> \o B64Encode(SubSeq(b, n + 1, Len(b)))

\* encode(mediaType, bytes) -> payload
Encode(mediaType, bytes) == mediaType \o << ";", "base64", "," >> \o B64Encode(bytes)

\* decode(payload) -> (mediaType, bytes): << the pair >>, or << >> for
\* MalformedPayload: no "," after the header, a header that is not
\* <mediaType>;base64, or a body that is not base64
Decode(payload) ==
    LET parts == Split(payload, ",")
        header == Split(parts[1], ";")
        bytes == Atob(parts[2])
    IN IF Len(parts) # 2 \/ Len(header) # 2 THEN << >>
       ELSE IF header[2] # << "base64" >> \/ bytes = << >> THEN << >>
       ELSE << [mediaType |-> header[1], bytes |-> bytes[1]] >>

\* the media types and byte sequences taken through the codec
Placeholder == << "application/octet-stream" >>
MediaTypes == { << "text/plain" >>, << "image/png" >>, Placeholder, << >> }
ByteValues == { 0, 72, 105, 255 }
ByteSeqs == UNION { [1 .. n -> ByteValues] : n \in 0 .. MaxBytes }

CodecEncode ==
    /\ codec.pc = "start"
    /\ codec' = [codec EXCEPT !.pc = "encoded", !.payload = Encode(codec.m, codec.b)]
    /\ UNCHANGED << container, exported, imp >>
    /\ UNCHANGED << svars, cvars, vvars, fvars >>

CodecDecode ==
    /\ codec.pc = "encoded"
    /\ codec' = [codec EXCEPT !.pc = "decoded", !.result = Decode(codec.payload)]
    /\ UNCHANGED << container, exported, imp >>
    /\ UNCHANGED << svars, cvars, vvars, fvars >>

NextCodec == CodecEncode \/ CodecDecode

\* a media type and a byte sequence about to be encoded
InitCodec ==
    /\ \E m \in MediaTypes, b \in ByteSeqs :
          codec = [pc |-> "start", m |-> m, b |-> b, payload |-> << >>, result |-> << >>]
    /\ container = << >>
    /\ exported = << >>
    /\ imp = NoImport
    /\ variant = NoVariant
    /\ children = << >>
    /\ fetches = {}
    /\ opened = << >>
    /\ dataURL = << >>
    /\ chunks = << >>
    /\ joined = NoString
    /\ spc = "start"
    /\ swaps = 0
    /\ given = << >>
    /\ fs = NoFs
    /\ verbose = FALSE
    /\ store = << >>
    /\ generated = {}
    /\ lf = << >>
    /\ calls = << >>
    /\ napi = 0
    /\ events = << >>
    /\ rows = << >>

SpecCodec == InitCodec /\ [][NextCodec]_vars

\* C14: decode(encode(m, b)) returns the media type m and the bytes b, for
\* every media type without parameters and every byte sequence
C14_CodecRoundTrip ==
    codec.pc = "decoded" =>
        codec.result = << [mediaType |-> codec.m, bytes |-> codec.b] >>

\* a round trip of a typed payload whose base64 body ends in "=="
C14_Witness ==
    /\ codec.pc = "decoded"
    /\ codec.m = << "text/plain" >>
    /\ Len(codec.b) = 1
    /\ codec.payload[Len(codec.payload)] = "="
    /\ codec.result # << >>

\* ---------------------------------------------------------------------
\* ArchiveWriter, ArchiveReader and MimeResolver over the FileClerk

MaxRecords == 2

\* the records found in the database when the archive component is used:
\* two well-typed files, a text file whose type drifted to the placeholder,
\* a file with an empty type and an extension the table does not know, and
\* a record whose payload is no tagged string
ArchiveFiles ==
    { FileData(<< "hello", ".", "txt" >>, Encode(<< "text/plain" >>, << 72, 105 >>), "my notes"),
      FileData(<< "cat", ".", "png" >>, Encode(<< "image/png" >>, << 255, 0 >>), ""),
      FileData(<< "notes", ".", "txt" >>, Encode(Placeholder, << 105 >>), ""),
      FileData(<< "data", ".", "bin" >>, Encode(<< >>, << 0 >>), ""),
      FileData(<< "broken", ".", "txt" >>, << "hello" >>, "") }

\* their ids were generated before the ids of this session
StoredIds(n) == (MaxIds + 1) .. (MaxIds + n)
ArchiveStores == UNION { [StoredIds(n) -> ArchiveFiles] : n \in 0 .. MaxRecords }

\* the fixed extension -> media type table; an unknown extension maps to
\* the generic placeholder
ExtensionType(ext) ==
    CASE ext = << "txt" >> -> << "text/plain" >>
      [] ext = << "png" >> -> << "image/png" >>
      [] ext = << "jpg" >> -> << "image/jpeg" >>
      [] ext = << "mp3" >> -> << "audio/mpeg" >>
      [] ext = << "mp4" >> -> << "video/mp4" >>
      [] ext = << "pdf" >> -> << "application/pdf" >>
      [] OTHER -> Placeholder

\* the extension of a name: what follows its last ".", nothing without one
Extension(name) ==
    LET parts == Split(name, ".") IN
    IF Len(parts) < 2 THEN << >> ELSE parts[Len(parts)]

\* a media type that says nothing: the generic placeholder, or empty
IsPlaceholder(mediaType) == mediaType = Placeholder \/ mediaType = << >>

\* MimeResolver that trusts the manifest whatever it says
ResolveMediaTypeAsIs(mediaType, name) == mediaType

\* MimeResolver: the manifest's type unless it is a placeholder, else the
\* type of the name's extension, else the placeholder
ResolveMediaType(mediaType, name) ==
    IF ~ IsPlaceholder(mediaType) THEN mediaType ELSE ExtensionType(Extension(name))

\* the manifest entry of a listed record, whether or not its payload decodes
ManifestEntryUnchecked(f) ==
    LET d == Decode(f.contents) IN
    << [id |-> f.id, name |-> f.filename,
        mediaType |-> IF d = << >> THEN << >> ELSE d[1].mediaType,
        metadata |-> f.metadata] >>

\* the manifest entry of a listed record: none when its payload does not decode
ManifestEntry(f) ==
    LET d == Decode(f.contents) IN
    IF d = << >> THEN << >>
    ELSE << [id |-> f.id, name |-> f.filename, mediaType |-> d[1].mediaType,
             metadata |-> f.metadata] >>

RECURSIVE ManifestOf(_)
ManifestOf(files) ==
    IF files = << >> THEN << >>
    ELSE ManifestEntry(Head(files)) \o ManifestOf(Tail(files))

\* the warnings of an export: one {id, reason} per record skipped
RECURSIVE ExportWarnings(_)
ExportWarnings(files) ==
    IF files = << >> THEN << >>
    ELSE (IF Decode(Head(files).contents) = << >>
          THEN << [id |-> Head(files).id, reason |-> "MalformedPayload"] >>
          ELSE << >>) \o ExportWarnings(Tail(files))

\* the blobs of an export: the decoded bytes of each record, keyed by id
BlobsOf(files) ==
    LET good == { k \in 1 .. Len(files) : Decode(files[k].contents) # << >> } IN
    [id \in { files[k].id : k \in good } |->
        Decode(files[CHOOSE k \in good : files[k].id = id].contents)[1].bytes]

\* the container written from the listed records
ContainerOf(files) ==
    [readable |-> TRUE, manifest |-> ManifestOf(files), blobs |-> BlobsOf(files)]

\* export up to its await: one listFiles() call
ExportStart ==
    /\ exported = << >>
    /\ imp.pc = "none"
    /\ CallListFiles
    /\ exported' = << [pc |-> "listing", call |-> Len(calls) + 1, origin |-> store,
                       warnings |-> << >>, produced |-> << >>] >>
    /\ UNCHANGED << codec, container, imp >>
    /\ UNCHANGED << svars, vvars, fvars >>

\* export after listFiles() resolved: every record is decoded, the
\* container written and the warnings returned
ExportFinish ==
    /\ exported # << >>
    /\ exported[1].pc = "listing"
    /\ calls[exported[1].call].pc = "resolved"
    /\ LET files == calls[exported[1].call].ret[1] IN
       /\ container' = << ContainerOf(files) >>
       /\ exported' = << [exported[1] EXCEPT !.pc = "done",
                                             !.warnings = ExportWarnings(files),
                                             !.produced = << ContainerOf(files) >>] >>
    /\ UNCHANGED << codec, imp >>
    /\ UNCHANGED << svars, cvars, vvars, fvars >>

\* the archive file loses one of its blobs before it is imported
BlobLost ==
    /\ container # << >>
    /\ imp.pc = "none"
    /\ \E id \in DOMAIN container[1].blobs :
          container' = << [container[1] EXCEPT
                              !.blobs = [k \in DOMAIN container[1].blobs \ {id} |->
                                            container[1].blobs[k]]] >>
    /\ UNCHANGED << codec, exported, imp >>
    /\ UNCHANGED << svars, cvars, vvars, fvars >>

\* the archive file's manifest becomes unreadable before it is imported
ManifestDamaged ==
    /\ container # << >>
    /\ imp.pc = "none"
    /\ container[1].readable
    /\ container' = << [container[1] EXCEPT !.readable = FALSE] >>
    /\ UNCHANGED << codec, exported, imp >>
    /\ UNCHANGED << svars, cvars, vvars, fvars >>

\* the archive file is taken to a page whose database is empty
OtherStore ==
    /\ container # << >>
    /\ imp.pc = "none"
    /\ lf = << >>
    /\ store # << >>
    /\ store' = << >>
    /\ UNCHANGED << verbose, generated, lf, calls, napi, events, rows >>
    /\ UNCHANGED avars
    /\ UNCHANGED << svars, vvars, fvars >>

\* an import that stops after its first entry
AfterEntryStops(n) == "done"

\* where import stands after it has dealt with entry n - 1
AfterEntry(n) == IF n > Len(container[1].manifest) THEN "done" ELSE "entry"

\* a parser that goes on with whatever it can read
ParseErrorIgnored(c) == ""

\* parsing the container: "" when it can be parsed, else the fatal error
ParseError(c) == IF c.readable THEN "" ELSE "CorruptArchive"

\* import(container) up to its first entry: the container is parsed
ImportStart ==
    /\ container # << >>
    /\ imp.pc = "none"
    /\ imp' = [pc |-> IF ParseError(container[1]) = "" THEN AfterEntry(1) ELSE "failed",
               error |-> ParseError(container[1]),
               next |-> 1, imported |-> 0, warnings |-> << >>, call |-> 0,
               created |-> << >>, before |-> store, cancel |-> FALSE]
    /\ UNCHANGED << codec, container, exported >>
    /\ UNCHANGED << svars, cvars, vvars, fvars >>

\* the next manifest entry: after a cancellation request import stops;
\* without its blob the entry is skipped with a warning; otherwise the type
\* is resolved, the payload rebuilt and saveFile called
ImportEntry ==
    /\ imp.pc = "entry"
    /\ LET e == container[1].manifest[imp.next] IN
       IF imp.cancel
       THEN /\ imp' = [imp EXCEPT !.pc = "cancelled"]
            /\ UNCHANGED cvars
       ELSE IF e.id \notin DOMAIN container[1].blobs
       THEN /\ imp' = [imp EXCEPT !.pc = AfterEntry(imp.next + 1),
                                  !.next = imp.next + 1,
                                  !.warnings = Append(imp.warnings,
                                                  [id |-> e.id, reason |-> "MissingBlob"]),
                                  !.created = Append(imp.created, NoKey)]
            /\ UNCHANGED cvars
       ELSE /\ CallSaveFile(e.name,
                            Encode(ResolveMediaType(e.mediaType, e.name),
                                   container[1].blobs[e.id]),
                            e.metadata)
            /\ imp' = [imp EXCEPT !.pc = "await", !.call = Len(calls) + 1]
    /\ UNCHANGED << codec, container, exported >>
    /\ UNCHANGED << svars, vvars, fvars >>

\* the page asks the running import to stop; import looks at the request
\* before it takes up the next entry
CancelImport ==
    /\ imp.pc \in {"entry", "await"}
    /\ ~ imp.cancel
    /\ imp' = [imp EXCEPT !.cancel = TRUE]
    /\ UNCHANGED << codec, container, exported >>
    /\ UNCHANGED << svars, cvars, vvars, fvars >>

\* saveFile resolved: the entry counts as imported
ImportResume ==
    /\ imp.pc = "await"
    /\ calls[imp.call].pc = "resolved"
    /\ imp' = [imp EXCEPT !.pc = AfterEntry(imp.next + 1),
                          !.next = imp.next + 1,
                          !.imported = imp.imported + 1,
                          !.created = Append(imp.created, calls[imp.call].id)]
    /\ UNCHANGED << codec, container, exported >>
    /\ UNCHANGED << svars, cvars, vvars, fvars >>

NextArchive ==
    \/ ExportStart
    \/ ExportFinish
    \/ BlobLost
    \/ ManifestDamaged
    \/ OtherStore
    \/ ImportStart
    \/ ImportEntry
    \/ CancelImport
    \/ ImportResume
    \/ KeysCompletes
    \/ ListGetItemCompletes
    \/ SetItemCompletes

\* a page with a file-clerk whose database holds up to MaxRecords records
InitArchive ==
    /\ store \in ArchiveStores
    /\ generated = DOMAIN store
    /\ verbose = FALSE
    /\ lf = << >>
    /\ calls = << >>
    /\ napi = 0
    /\ events = << >>
    /\ rows = << >>
    /\ codec = NoCodec
    /\ container = << >>
    /\ exported = << >>
    /\ imp = NoImport
    /\ variant = NoVariant
    /\ children = << >>
    /\ fetches = {}
    /\ opened = << >>
    /\ dataURL = << >>
    /\ chunks = << >>
    /\ joined = NoString
    /\ spc = "start"
    /\ swaps = 0
    /\ given = << >>
    /\ fs = NoFs

SpecArchive == InitArchive /\ [][NextArchive]_vars

\* the import has run to its end
ImportDone == imp.pc = "done"

\* the ids of the manifest entries of the container
ManifestIds == { container[1].manifest[k].id : k \in 1 .. Len(container[1].manifest) }

\* the manifest entries whose blob is not in the container
MissingBlobs ==
    { k \in 1 .. Len(container[1].manifest) :
          container[1].manifest[k].id \notin DOMAIN container[1].blobs }

\* the ids of the exported database whose payload decodes
Decodable(st) == { id \in DOMAIN st : Decode(st[id].contents) # << >> }

\* C15: while and after a container is imported, every record that was in
\* the store before is still there unchanged, and no entry is stored under
\* an id of the archive or an id that was in the store
C15_ImportNeverOverwrites ==
    imp.pc \in {"entry", "await", "done"} =>
        /\ \A id \in DOMAIN imp.before :
              id \in DOMAIN store /\ store[id] = imp.before[id]
        /\ \A k \in 1 .. Len(imp.created) :
              imp.created[k] # NoKey =>
                  /\ imp.created[k] \notin ManifestIds
                  /\ imp.created[k] \notin DOMAIN imp.before

\* an archive imported into the database it was exported from: an entry
\* has the id of a record that is there, and it was imported
C15_Witness ==
    /\ ImportDone
    /\ imp.imported >= 1
    /\ \E k \in 1 .. Len(imp.created) :
          /\ imp.created[k] # NoKey
          /\ container[1].manifest[k].id \in DOMAIN imp.before
          /\ imp.created[k] \in DOMAIN store

C18_Known == { << "txt" >>, << "png" >>, << "jpg" >>, << "mp3" >>, << "mp4" >>, << "pdf" >> }

\* C18: every entry with a blob is imported, and the record stored for it
\* decodes to the manifest's media type when that is not the placeholder
\* or empty, else to the type of the name's extension (text/plain for
\* "notes.txt"), else to the placeholder
C18_MimeResolution ==
    imp.pc \in {"entry", "await", "done"} =>
        \A k \in 1 .. Len(imp.created) :
            LET e == container[1].manifest[k]
                id == imp.created[k]
            IN /\ (k \notin MissingBlobs) <=> (id # NoKey)
               /\ id # NoKey =>
                     /\ id \in DOMAIN store
                     /\ LET d == Decode(store[id].contents) IN
                        /\ d # << >>
                        /\ (e.mediaType # Placeholder /\ e.mediaType # << >>) =>
                                 d[1].mediaType = e.mediaType
                        /\ (e.mediaType = Placeholder \/ e.mediaType = << >>) =>
                                 IF Extension(e.name) \in C18_Known
                                 THEN d[1].mediaType = ExtensionType(Extension(e.name))
                                 ELSE d[1].mediaType = Placeholder
                        /\ (e.name = << "notes", ".", "txt" >> /\ e.mediaType = Placeholder) =>
                                 d[1].mediaType = << "text/plain" >>

\* "notes.txt" with the placeholder type was repaired and a file with an
\* empty type and an unknown extension was carried through
C18_Witness ==
    /\ ImportDone
    /\ \E k, j \in 1 .. Len(imp.created) :
          /\ imp.created[k] # NoKey
          /\ container[1].manifest[k].name = << "notes", ".", "txt" >>
          /\ container[1].manifest[k].mediaType = Placeholder
          /\ Decode(store[imp.created[k]].contents)[1].mediaType = << "text/plain" >>
          /\ imp.created[j] # NoKey
          /\ container[1].manifest[j].mediaType = << >>
          /\ Decode(store[imp.created[j]].contents)[1].mediaType = Placeholder

\* C19: an export ends with a container in which the manifest ids are
\* distinct and are exactly the ids of the blobs, which are exactly the
\* records whose payload decodes; every other record is named in one
\* warning with a reason
C19_ExportConsistent ==
    (exported # << >> /\ exported[1].pc = "done") =>
        LET c == exported[1].produced[1]
            origin == exported[1].origin
            w == exported[1].warnings
        IN /\ { c.manifest[k].id : k \in 1 .. Len(c.manifest) } = DOMAIN c.blobs
           /\ Len(c.manifest) = Cardinality(DOMAIN c.blobs)
           /\ DOMAIN c.blobs = Decodable(origin)
           /\ { w[k].id : k \in 1 .. Len(w) } = DOMAIN origin \ Decodable(origin)
           /\ Len(w) = Cardinality(DOMAIN origin \ Decodable(origin))
           /\ \A k \in 1 .. Len(w) : w[k].reason = "MalformedPayload"

\* an export that skipped one record and archived another
C19_Witness ==
    /\ exported # << >>
    /\ exported[1].pc = "done"
    /\ Len(exported[1].warnings) = 1
    /\ Len(exported[1].produced[1].manifest) = 1

\* the records a and b agree on name, metadata, decoded bytes and decoded media type
C13_Same(a, b) ==
    /\ a.filename = b.filename
    /\ a.metadata = b.metadata
    /\ Decode(a.contents) # << >>
    /\ Decode(a.contents) = Decode(b.contents)

\* the same, but where the original b carries a placeholder type the copy a
\* carries what the MimeResolver makes of it
C13_SameOrRepaired(a, b) ==
    /\ a.filename = b.filename
    /\ a.metadata = b.metadata
    /\ Decode(a.contents) # << >>
    /\ Decode(b.contents) # << >>
    /\ Decode(a.contents)[1].bytes = Decode(b.contents)[1].bytes
    /\ Decode(a.contents)[1].mediaType =
          IF IsPlaceholder(Decode(b.contents)[1].mediaType)
          THEN ExtensionType(Extension(b.filename))
          ELSE Decode(b.contents)[1].mediaType

\* an export was imported, as it was written, into an empty store
C13_RoundTripDone ==
    /\ ImportDone
    /\ imp.before = << >>
    /\ exported # << >>
    /\ container = exported[1].produced

\* C13 as stated: the store then holds exactly as many records as were
\* exported from, matching them one-to-one on name, decoded media type,
\* decoded bytes and metadata
C13_RoundTripExact ==
    C13_RoundTripDone =>
        LET origin == exported[1].origin IN
        \E f \in [DOMAIN origin -> DOMAIN store] :
            /\ \A x, y \in DOMAIN origin : f[x] = f[y] => x = y
            /\ Cardinality(DOMAIN store) = Cardinality(DOMAIN origin)
            /\ \A x \in DOMAIN origin : C13_Same(store[f[x]], origin[x])

\* C13 amended: the store then holds one record per original record whose
\* payload decodes, matching them one-to-one on name, decoded bytes and
\* metadata, and on media type unless the original type is the placeholder
\* or empty, where the copy has the type resolved from the name
C13_RoundTripDecodable ==
    C13_RoundTripDone =>
        LET origin == exported[1].origin
            good == Decodable(origin)
        IN \E f \in [good -> DOMAIN store] :
            /\ \A x, y \in good : f[x] = f[y] => x = y
            /\ Cardinality(DOMAIN store) = Cardinality(good)
            /\ \A x \in good : C13_SameOrRepaired(store[f[x]], origin[x])

\* two records went through an export and an import into an empty store
C13_Witness ==
    /\ C13_RoundTripDone
    /\ Cardinality(DOMAIN exported[1].origin) = 2
    /\ imp.imported = 2
    /\ \E id \in DOMAIN store : store[id].filename = << "hello", ".", "txt" >>

\* the saveFile calls that have not settled
PendingSaves == { c \in CallsOf("saveFile") : ~ Resolved(c) }

\* import state: the entries dealt with so far are the first ones of the
\* manifest, in its order, at most one saveFile is in flight and import
\* waits for it, and every entry imported so far has its record in the store
C21_Sequential ==
    imp.pc \in {"entry", "await", "done", "cancelled"} =>
        /\ Len(imp.created) = imp.next - 1
        /\ Cardinality(PendingSaves) <= (IF imp.pc = "await" THEN 1 ELSE 0)
        /\ imp.imported = Cardinality({ k \in 1 .. Len(imp.created) : imp.created[k] # NoKey })
        /\ \A k \in 1 .. Len(imp.created) :
              imp.created[k] # NoKey =>
                  /\ imp.created[k] \in DOMAIN store
                  /\ store[imp.created[k]].filename = container[1].manifest[k].name
                  /\ store[imp.created[k]].metadata = container[1].manifest[k].metadata

\* import step: what has been imported stays imported, also when the
\* import is cancelled or a later entry is skipped
C21_Committed ==
    imp.pc \in {"entry", "await", "done", "cancelled"} =>
        /\ imp'.imported >= imp.imported
        /\ \A k \in 1 .. Len(imp.created) :
              /\ k <= Len(imp'.created)
              /\ imp'.created[k] = imp.created[k]
              /\ imp.created[k] # NoKey =>
                    /\ imp.created[k] \in DOMAIN store'
                    /\ store'[imp.created[k]] = store[imp.created[k]]

\* C21: import deals with the manifest entries one at a time in manifest
\* order, and when it is cancelled between entries or an entry fails every
\* entry imported before stays committed in the store
C21_SequentialNoRollback == [] C21_Sequential /\ [][C21_Committed]_vars

\* an import cancelled after its first entry was imported and before its second
C21_Witness ==
    /\ imp.pc = "cancelled"
    /\ imp.imported = 1
    /\ imp.next <= Len(container[1].manifest)
    /\ imp.created[1] \in DOMAIN store

\* the step is an openFile call
ViewerCalled == opened' # opened

\* the file type openFile parses from the argument of the call just made
CalledType == FileType(opened'[Len(opened')])

\* the media types for which the switch of the registered class has a case
SupportedTypes ==
    { << "image/jpeg" >>, << "image/png" >>, << "video/mp4" >>, << "audio/mpeg" >>,
      << "application/pdf" >>, << "text/plain" >> }
        \cup (IF variant = ClearFirst THEN { << "image/webp" >> } ELSE {})

\* the element each supported media type is rendered by
RendererOf(mediaType) ==
    CASE mediaType \in { << "image/jpeg" >>, << "image/png" >>, << "image/webp" >> } -> "img"
      [] mediaType = << "video/mp4" >> -> "video"
      [] mediaType = << "audio/mpeg" >> -> "audio"
      [] mediaType = << "application/pdf" >> -> "embed"
      [] mediaType = << "text/plain" >> -> "pre"

\* C26: an openFile call with a Data URL whose media type has no case in
\* the switch leaves the children as they are and starts no fetch; a call
\* with a supported type changes the children to nothing but the element
\* of that media type, whatever the body is
C26_UnknownTypeNoOp ==
    [][(ViewerCalled /\ CalledType # << >>) =>
          /\ CalledType[1] \notin SupportedTypes =>
                 (children' = children /\ fetches' = fetches)
          /\ CalledType[1] \in SupportedTypes =>
                 /\ children' # children =>
                        \A k \in 1 .. Len(children') :
                            children'[k].tag = RendererOf(CalledType[1])
                 /\ fetches' # fetches => CalledType[1] = << "text/plain" >>]_vars

\* a file of an unsupported type was opened while another file was shown
C26_Witness ==
    /\ Len(opened) = 2
    /\ FileType(opened[2]) = << << "application/zip" >> >>
    /\ children # << >>
    /\ children[1].src = opened[1]

\* C27 as stated: when a fetch started by an earlier openFile call settles
\* after the last call has rendered its file, it leaves the children as
\* the last call made them
C27_LastOpenWins ==
    [][\A f \in fetches :
          (/\ f \notin fetches'
           /\ opened' = opened
           /\ f.n < Len(opened)
           /\ \A g \in fetches : g.n # Len(opened)
           /\ FileType(opened[Len(opened)]) # << >>
           /\ FileType(opened[Len(opened)])[1] \in SupportedTypes
           /\ children # << >>)
          => children' = children]_vars

\* the calls that settle in this step
Settling == { c \in 1 .. Len(calls) : c \notin Settled /\ calls'[c].pc \in {"resolved", "rejected"} }

\* C28 as stated: no listFiles call rejects, whatever saveFile and
\* deleteFile calls run beside it, and every entry it returns is a record
\* that a saveFile call stored under that id
C28_ListFilesNeverRejects ==
    \A c \in CallsOf("listFiles") :
        /\ calls[c].pc # "rejected"
        /\ Resolved(c) =>
              \A k \in 1 .. Len(calls[c].ret[1]) :
                  \E w \in CallsOf("saveFile") :
                      calls[c].ret[1][k] = ListEntry(calls[w].id, calls[w].value[1])

\* C29: a step in which saveFile completes adds exactly one record under
\* a key that was not there, a step in which deleteFile(id) completes
\* removes at most the record of id, every other step leaves the store as
\* it is, and no step changes a record that stays
C29_StoreFrame ==
    [][IF store' = store
       THEN \A c \in 1 .. Len(calls) :
               (calls[c].fn = "saveFile" /\ calls'[c].pc \in {"resolved", "rejected"})
               => calls[c].pc \in {"resolved", "rejected"}
       ELSE LET added == DOMAIN store' \ DOMAIN store
                removed == DOMAIN store \ DOMAIN store'
                saves == Settling \cap CallsOf("saveFile")
                deletes == Settling \cap CallsOf("deleteFile")
            IN /\ \A k \in DOMAIN store \cap DOMAIN store' : store'[k] = store[k]
               /\ saves \cup deletes # {}
               /\ \A c \in saves :
                     /\ added = { calls[c].id }
                     /\ removed = {}
                     /\ store'[calls[c].id] = calls[c].value[1]
               /\ \A c \in deletes :
                     /\ added = {}
                     /\ removed \subseteq { calls[c].id }]_vars

\* a deleteFile took one record out while another stayed, and a saveFile
\* added a record beside it
C29_Witness ==
    /\ \E d \in CallsOf("deleteFile") : Resolved(d) /\ calls[d].present
    /\ Cardinality(DOMAIN store) = 1
    /\ Cardinality({ c \in CallsOf("saveFile") : Resolved(c) }) = 2

\* ---------------------------------------------------------------------
\* joinFiles on chunk arrays that splitFiles did not return

MaxArray == 3

\* the indices and the data of the chunks handed to joinFiles: an index
\* below 0, indices that repeat, a gap and an index beyond the array
JoinIndices == { -1, 0, 1, 5 }
JoinData == { << >>, << 0 >>, << 1, 2 >> }
JoinChunks == { [index |-> i, data |-> d] : i \in JoinIndices, d \in JoinData }
ChunkArrays == UNION { [1 .. n -> JoinChunks] : n \in 0 .. MaxArray }

NextJoin == JoinFiles

\* a caller holding some array of chunks
InitJoin ==
    /\ chunks \in ChunkArrays
    /\ spc = "split"
    /\ dataURL = << >>
    /\ joined = NoString
    /\ swaps = 0
    /\ given = << >>
    /\ fs = NoFs
    /\ verbose = FALSE
    /\ store = << >>
    /\ generated = {}
    /\ lf = << >>
    /\ calls = << >>
    /\ napi = 0
    /\ events = << >>
    /\ rows = << >>
    /\ variant = NoVariant
    /\ children = << >>
    /\ fetches = {}
    /\ opened = << >>
    /\ codec = NoCodec
    /\ container = << >>
    /\ exported = << >>
    /\ imp = NoImport

SpecJoin == InitJoin /\ [][NextJoin]_vars

\* the sum of the lengths of the data of the chunks of an array
RECURSIVE TotalLength(_)
TotalLength(cs) ==
    IF cs = << >> THEN 0 ELSE Len(Head(cs).data) + TotalLength(Tail(cs))

\* the place of the i-th chunk of an array in its ascending, stable order:
\* after the chunks of smaller index and the earlier chunks of equal index
StablePlace(cs, i) ==
    1 + Cardinality({ j \in 1 .. Len(cs) : cs[j].index < cs[i].index })
      + Cardinality({ j \in 1 .. i - 1 : cs[j].index = cs[i].index })

\* C30: after joinFiles on any chunk array the result is as long as all
\* the data together, the caller's array holds the same chunks in
\* ascending index order with chunks of equal index in their former order,
\* and joinFiles on it gives the same string again
C30_JoinBestEffort ==
    spc = "joined" =>
        /\ Len(joined) = TotalLength(given)
        /\ Len(chunks) = Len(given)
        /\ \A i \in 1 .. Len(given) : chunks[StablePlace(given, i)] = given[i]
        /\ \A i, j \in 1 .. Len(chunks) : i < j => chunks[i].index <= chunks[j].index
        /\ joinFiles(chunks) = joined
        /\ SortByIndex(chunks) = chunks

\* an array with a repeated index, an index beyond the array and a gap,
\* handed over out of order
C30_Witness ==
    /\ spc = "joined"
    /\ given # chunks
    /\ Len(given) = 3
    /\ given[1].index = 5
    /\ given[2].index = 0 /\ given[3].index = 0
    /\ given[2].data # given[3].data
    /\ given[2].data # << >> /\ given[3].data # << >>

\* ---------------------------------------------------------------------
\* FileSystemComponent. fs is the element together with what it works on:
\*   supported, secure: whether window has the three pickers, and
\*       window.isSecureContext (the pickers exist in secure contexts only)
\*   directoryHandle, autoSaveEnabled, autoSaveTimeouts: the fields
\*   assigned: the page has written autoSaveEnabled itself
\*   timers: the setTimeout timers of autoSave scheduled and neither fired
\*       nor cleared; ntimers: the timer ids handed out so far
\*   writes: the timer callbacks awaiting writeToFile
\*   last: path -> the content of the last autoSave call that got past the guard
\*   ops: the calls of the async methods in call order, each with the
\*       events it has dispatched
\*   ncalls, nauto: the calls the page has made, and those of autoSave
\*   events: the events dispatched by initialize and by timer callbacks
\*   disk: path -> content of the files written
\* The delay stays the 2000 ms of initialize, so timers fire in the order
\* they were set.

MaxFsCalls == 3

FsFiles == { "a.txt", "b.txt" }
FsContents == { "v1", "v2" }
FsDirs == { "docs" }
\* a file handle argument: null, or the handle of a file
FsHandles == { << >> } \cup { << f >> : f \in FsFiles }

FsOps == { "pickDirectory", "pickFile", "saveFile", "readFile", "deleteFile", "listFiles" }

\* the type each method hands to handleError in its catch
ErrorType(op) ==
    CASE op = "pickDirectory" -> "DIRECTORY_PICKER_ERROR"
      [] op = "pickFile" -> "FILE_PICKER_ERROR"
      [] op = "saveFile" -> "FILE_SAVE_ERROR"
      [] op = "readFile" -> "FILE_READ_ERROR"
      [] op = "deleteFile" -> "FILE_DELETE_ERROR"
      [] op = "listFiles" -> "LIST_FILES_ERROR"

\* the event each method dispatches when it has done its work
SuccessEvent(op) ==
    CASE op = "pickDirectory" -> "directory-selected"
      [] op = "pickFile" -> "file-opened"
      [] op = "saveFile" -> "file-saved"
      [] op = "readFile" -> "file-read"
      [] op = "deleteFile" -> "file-deleted"
      [] op = "listFiles" -> "files-listed"

\* this.event(name, detail); c is the call that dispatches it, 0 for none
FsEvent(name, type, c, path, content) ==
    [name |-> name, type |-> type, call |-> c, path |-> path, content |-> content]

\* dispatchError(type, ...)
ErrorEvent(type, c) == FsEvent("file-system-error", type, c, "", "")

\* handleError that only logs
handleErrorSilent(type, c) == << >>

\* handleError(type, error): the events it dispatches
handleError(type, c) == << ErrorEvent(type, c) >>

\* checkApiSupport(): the error events it dispatches
checkApiSupport(c) ==
    (IF fs.supported THEN << >> ELSE << ErrorEvent("FILE_SYSTEM_API_NOT_SUPPORTED", c) >>)
    \o (IF fs.secure THEN << >> ELSE << ErrorEvent("INSECURE_CONTEXT", c) >>)

\* the file written or removed
WriteFile(disk, path, content) ==
    [p \in DOMAIN disk \cup {path} |-> IF p = path THEN content ELSE disk[p]]
RemoveEntry(disk, path) == [p \in DOMAIN disk \ {path} |-> disk[p]]

\* a call of one of the async methods, up to its first await or, when it
\* gets no further, to its end
\*   pickDirectory, pickFile, saveFile: return after checkApiSupport when
\*       the API is missing
\*   readFile(null), deleteFile without directory or with null: the throw
\*       is caught and handed to handleError
\*   listFiles without directory: returns []
FsCall(op, handle, content) ==
    LET c == Len(fs.ops) + 1
        picker == op \in {"pickDirectory", "pickFile", "saveFile"}
        throws == \/ op = "readFile" /\ handle = << >>
                  \/ op = "deleteFile" /\ (fs.directoryHandle = << >> \/ handle = << >>)
        returns == \/ picker /\ ~ fs.supported
                   \/ op = "listFiles" /\ fs.directoryHandle = << >>
        fired == IF picker THEN checkApiSupport(c)
                 ELSE IF throws THEN handleError(ErrorType(op), c)
                 ELSE << >>
    IN /\ fs.pc = "ready"
       /\ fs.ncalls < MaxFsCalls
       /\ fs' = [fs EXCEPT
                    !.ncalls = fs.ncalls + 1,
                    !.ops = Append(fs.ops,
                              [op |-> op, handle |-> handle, content |-> content,
                               pc |-> IF throws \/ returns THEN "returned" ELSE "pending",
                               fired |-> fired])]

\* the platform promise a pending call awaits settles: fulfilled, the
\* method does its work and dispatches its event; rejected (the user
\* cancelled, the file is gone, permission is denied), the catch hands the
\* error to handleError
FsSettle(c, ok, dir, file) ==
    LET o == fs.ops[c] IN
    /\ fs.pc = "ready"
    /\ o.pc = "pending"
    /\ IF ~ ok
       THEN fs' = [fs EXCEPT !.ops[c].pc = "returned",
                             !.ops[c].fired = o.fired \o handleError(ErrorType(o.op), c)]
       ELSE fs' = [fs EXCEPT
                      !.ops[c].pc = "returned",
                      !.directoryHandle =
                          IF o.op = "pickDirectory" THEN << dir >> ELSE fs.directoryHandle,
                      !.disk =
                          CASE o.op = "saveFile" -> WriteFile(fs.disk, file, o.content)
                            [] o.op = "deleteFile" -> RemoveEntry(fs.disk, o.handle[1])
                            [] OTHER -> fs.disk,
                      !.ops[c].fired =
                          Append(o.fired,
                                 FsEvent(SuccessEvent(o.op), "", c,
                                         CASE o.op \in {"pickFile", "saveFile"} -> file
                                           [] o.op \in {"readFile", "deleteFile"} -> o.handle[1]
                                           [] OTHER -> "",
                                         IF o.op = "saveFile" THEN o.content ELSE ""))]

\* autoSave that looks at the handle only
autoSaveReturnsOnNull(enabled, handle) == handle = << >>

\* if (!this.autoSaveEnabled || !fileHandle) return;
autoSaveReturns(enabled, handle) == ~ enabled \/ handle = << >>

\* autoSave(fileHandle, content): the timer stored for the path is
\* cleared, a new one is set and stored
AutoSaveCall(handle, content) ==
    /\ fs.pc = "ready"
    /\ fs.ncalls < MaxFsCalls
    /\ IF autoSaveReturns(fs.autoSaveEnabled, handle)
       THEN fs' = [fs EXCEPT !.ncalls = fs.ncalls + 1, !.nauto = fs.nauto + 1]
       ELSE LET path == handle[1]
                id == fs.ntimers + 1
                cleared == IF path \in DOMAIN fs.autoSaveTimeouts
                           THEN { t \in fs.timers : t.id = fs.autoSaveTimeouts[path] }
                           ELSE {}
            IN fs' = [fs EXCEPT
                         !.ncalls = fs.ncalls + 1,
                         !.nauto = fs.nauto + 1,
                         !.ntimers = id,
                         !.timers = (fs.timers \ cleared)
                                       \cup { [id |-> id, path |-> path, content |-> content] },
                         !.autoSaveTimeouts = WriteFile(fs.autoSaveTimeouts, path, id),
                         !.last = WriteFile(fs.last, path, content)]

\* the delay of the oldest timer elapses: its callback starts writeToFile
TimerFires(t) ==
    /\ fs.pc = "ready"
    /\ t \in fs.timers
    /\ \A u \in fs.timers : t.id <= u.id
    /\ fs' = [fs EXCEPT !.timers = fs.timers \ {t}, !.writes = fs.writes \cup {t}]

\* this.autoSaveTimeouts.delete(path)
autoSaveTimeoutsDelete(timeouts, path) == RemoveEntry(timeouts, path)

\* writeToFile of a timer callback settles: after a write the event is
\* dispatched and the map entry of the path deleted, after a failure the
\* catch hands the error to handleError
WriteSettles(w, ok) ==
    /\ fs.pc = "ready"
    /\ w \in fs.writes
    /\ IF ok
       THEN fs' = [fs EXCEPT
                      !.writes = fs.writes \ {w},
                      !.disk = WriteFile(fs.disk, w.path, w.content),
                      !.events = Append(fs.events,
                                    FsEvent("file-auto-saved", "", 0, w.path, w.content)),
                      !.autoSaveTimeouts = autoSaveTimeoutsDelete(fs.autoSaveTimeouts, w.path)]
       ELSE fs' = [fs EXCEPT
                      !.writes = fs.writes \ {w},
                      !.events = fs.events \o handleError("AUTO_SAVE_ERROR", 0)]

\* the page sets the autoSaveEnabled field of the element itself
SetAutoSaveEnabled ==
    /\ fs.pc = "ready"
    /\ ~ fs.autoSaveEnabled
    /\ fs' = [fs EXCEPT !.autoSaveEnabled = TRUE, !.assigned = TRUE]

FsIdle == UNCHANGED << svars, cvars, vvars, avars >>

\* readFile and deleteFile are given null or the handle of a.txt, saveFile
\* the content v1; the pickers hand back docs and a.txt
FsMethod ==
    (\E op \in FsOps, handle \in { << >>, << "a.txt" >> } :
        /\ op \in {"readFile", "deleteFile"} \/ handle = << >>
        /\ FsCall(op, handle, "v1")) /\ FsIdle
FsPromiseSettles ==
    (\E c \in 1 .. Len(fs.ops), ok \in BOOLEAN, dir \in FsDirs :
        FsSettle(c, ok, dir, "a.txt")) /\ FsIdle
AutoSave == (\E handle \in FsHandles, content \in FsContents : AutoSaveCall(handle, content)) /\ FsIdle
AutoSaveTimerFires == (\E t \in fs.timers : TimerFires(t)) /\ FsIdle
AutoSaveWriteSettles == (\E w \in fs.writes, ok \in BOOLEAN : WriteSettles(w, ok)) /\ FsIdle
PageSetsAutoSaveEnabled == SetAutoSaveEnabled /\ FsIdle

NextFs ==
    \/ FsMethod
    \/ FsPromiseSettles
    \/ AutoSave
    \/ AutoSaveTimerFires
    \/ AutoSaveWriteSettles
    \/ PageSetsAutoSaveEnabled

\* the element after initialize(): no directory, auto-save off, no timer;
\* checkApiSupport has dispatched its errors
InitFs ==
    /\ \E supported, secure \in BOOLEAN :
          /\ supported => secure
          /\ fs = [pc |-> "ready", supported |-> supported, secure |-> secure,
                   directoryHandle |-> << >>, autoSaveEnabled |-> FALSE,
                   assigned |-> FALSE, autoSaveTimeouts |-> << >>,
                   timers |-> {}, ntimers |-> 0, writes |-> {}, last |-> << >>,
                   ops |-> << >>, ncalls |-> 0, nauto |-> 0,
                   events |-> (IF supported THEN << >>
                               ELSE << ErrorEvent("FILE_SYSTEM_API_NOT_SUPPORTED", 0) >>)
                              \o (IF secure THEN << >>
                                  ELSE << ErrorEvent("INSECURE_CONTEXT", 0) >>),
                   disk |-> << >>]
    /\ dataURL = << >>
    /\ chunks = << >>
    /\ joined = NoString
    /\ spc = "start"
    /\ swaps = 0
    /\ given = << >>
    /\ verbose = FALSE
    /\ store = << >>
    /\ generated = {}
    /\ lf = << >>
    /\ calls = << >>
    /\ napi = 0
    /\ events = << >>
    /\ rows = << >>
    /\ variant = NoVariant
    /\ children = << >>
    /\ fetches = {}
    /\ opened = << >>
    /\ codec = NoCodec
    /\ container = << >>
    /\ exported = << >>
    /\ imp = NoImport

SpecFs == InitFs /\ [][NextFs]_vars

\* the events dispatched by the element so far
AllFsEvents ==
    { fs.events[i] : i \in DOMAIN fs.events }
    \cup UNION { { fs.ops[c].fired[i] : i \in DOMAIN fs.ops[c].fired } : c \in DOMAIN fs.ops }

\* the timers of a path that are set and have neither fired nor been cleared
PendingTimers(path) == { t \in fs.timers : t.path = path }

\* C22 as stated: each autoSave call for a path cancels the timer set by
\* the call before it, so a path has at most one timer pending, that timer
\* writes the content of the last call, and once the timers and writes of
\* the path are through without an error the last file-auto-saved event of
\* the path carries the content of the last call.
C22_Debounced ==
    fs.pc = "ready" =>
        \A path \in FsFiles :
            /\ Cardinality(PendingTimers(path)) <= 1
            /\ \A t \in PendingTimers(path) : t.content = fs.last[path]
            /\ ( /\ path \in DOMAIN fs.last
                 /\ PendingTimers(path) = {}
                 /\ \A w \in fs.writes : w.path # path
                 /\ \A i \in DOMAIN fs.events : fs.events[i].type # "AUTO_SAVE_ERROR" )
               => \E i \in DOMAIN fs.events :
                     /\ fs.events[i] = FsEvent("file-auto-saved", "", 0, path, fs.last[path])
                     /\ \A j \in DOMAIN fs.events :
                           j > i => fs.events[j].path # path

\* C23 as stated: every timer that is pending is the one autoSaveTimeouts
\* holds under its path.
C23_TimersTracked ==
    fs.pc = "ready" =>
        \A t \in fs.timers :
            /\ t.path \in DOMAIN fs.autoSaveTimeouts
            /\ fs.autoSaveTimeouts[t.path] = t.id

C24_Disabled ==
    fs.pc = "ready" =>
        /\ \A e \in AllFsEvents : e.name # "autosave-toggled"
        /\ ~ fs.assigned =>
              /\ ~ fs.autoSaveEnabled
              /\ fs.timers = {}
              /\ fs.writes = {}
              /\ fs.autoSaveTimeouts = << >>
              /\ \A e \in AllFsEvents : e.name # "file-auto-saved"

C24_AutoSaveReturns ==
    \A handle \in FsHandles, content \in FsContents :
        ( /\ fs.pc = "ready"
          /\ ~ fs.autoSaveEnabled \/ handle = << >>
          /\ AutoSaveCall(handle, content) )
        => /\ fs'.timers = fs.timers
           /\ fs'.ntimers = fs.ntimers
           /\ fs'.autoSaveTimeouts = fs.autoSaveTimeouts
           /\ fs'.writes = fs.writes
           /\ fs'.disk = fs.disk
           /\ fs'.events = fs.events
           /\ fs'.ops = fs.ops

FsFailed(c) ==
    /\ fs.ops[c].pc = "returned"
    /\ \A i \in DOMAIN fs.ops[c].fired : fs.ops[c].fired[i].name # SuccessEvent(fs.ops[c].op)
    /\ ~ (fs.ops[c].op = "listFiles" /\ fs.ops[c].fired = << >>)

\* the names and the types of the events of a call
FiredNames(c) == [i \in DOMAIN fs.ops[c].fired |-> fs.ops[c].fired[i].name]
FiredTypes(c) == [i \in DOMAIN fs.ops[c].fired |-> fs.ops[c].fired[i].type]

\* directoryHandle changes only when a pickDirectory call dispatches
\* directory-selected; every call returns
C25_DirectoryKept ==
    /\ fs.pc = "ready"
    /\ fs'.pc = "ready"
    => /\ \A c \in DOMAIN fs'.ops : fs'.ops[c].pc \in {"pending", "returned"}
       /\ fs'.directoryHandle # fs.directoryHandle
          => \E c \in DOMAIN fs.ops :
                /\ fs.ops[c].op = "pickDirectory"
                /\ fs.ops[c].pc = "pending"
                /\ fs'.ops[c].pc = "returned"
                /\ FiredNames(c)' = << "directory-selected" >>

\* C25 as stated: a call that fails has dispatched one file-system-error
\* with the type of its method and nothing else.
C25_OwnErrorType ==
    fs.pc = "ready" =>
        \A c \in DOMAIN fs.ops :
            FsFailed(c) =>
                /\ FiredNames(c) = << "file-system-error" >>
                /\ FiredTypes(c) = << ErrorType(fs.ops[c].op) >>

C25_ErrorTypes ==
    fs.pc = "ready" =>
        \A c \in DOMAIN fs.ops :
            FsFailed(c) =>
                /\ \A i \in DOMAIN FiredNames(c) : FiredNames(c)[i] = "file-system-error"
                /\ IF fs.ops[c].op \in {"pickDirectory", "pickFile", "saveFile"} /\ ~ fs.supported
                   THEN /\ Len(FiredTypes(c)) \in {1, 2}
                        /\ FiredTypes(c)[1] = "FILE_SYSTEM_API_NOT_SUPPORTED"
                        /\ Len(FiredTypes(c)) = 2 => FiredTypes(c)[2] = "INSECURE_CONTEXT"
                   ELSE FiredTypes(c) = << ErrorType(fs.ops[c].op) >>

\* C25: no call of pickDirectory, pickFile, saveFile, readFile, deleteFile
\* or listFiles throws; a call that fails dispatches none of its success
\* events and leaves directoryHandle alone; it dispatches one
\* file-system-error with the type of its method, except that a picker
\* method called where the API is missing dispatches the errors of
\* checkApiSupport instead.
C25_NeverThrows == [] C25_ErrorTypes /\ [][C25_DirectoryKept]_vars

\* the user has cancelled a picker and deleteFile was called with no
\* directory selected
C25_Witness ==
    /\ fs.pc = "ready"
    /\ fs.supported
    /\ \E c, d \in DOMAIN fs.ops :
          /\ fs.ops[c].op \in {"pickDirectory", "pickFile", "saveFile"}
          /\ FsFailed(c)
          /\ fs.ops[d].op = "deleteFile"
          /\ fs.ops[d].handle # << >>
          /\ FsFailed(d)
          /\ fs.directoryHandle = << >>


\* C20 as stated: in verbose mode, once every request and render has
\* completed, .file-list has exactly one row per record in the store
C20_RowsMatchStore ==
    (verbose /\ lf = << >>) =>
        /\ Len(rows) = Cardinality(DOMAIN store)
        /\ { rows[k].id : k \in 1 .. Len(rows) } = DOMAIN store

====
